---- MODULE Spec2Model ----
(***************************************************************************)
(* TetraTools.hxx: readers and writers for TetGen .node / .ele files and   *)
(* the binary mesh layout.                                                 *)
(*                                                                         *)
(* Representation of machine values.                                       *)
(*   uint32_t : the 32-bit pattern, held as the two's-complement integer   *)
(*              with the same bits (4294967295 is held as -1).  Unsigned   *)
(*              comparisons and wrap-around arithmetic are U32Lt, U32Add,  *)
(*              U32Mul below.                                              *)
(*   float    : the IEEE-754 binary32 pattern, held the same way.  The     *)
(*              model handles integer-valued floats; F32Bits / F32Int      *)
(*              convert between the pattern and the integer it denotes.    *)
(*   text     : a line is a sequence of items: "ws" (one whitespace        *)
(*              character), "#" (the character '#'), or an integer (a      *)
(*              decimal token; adjacent tokens are separated by a blank).  *)
(***************************************************************************)
EXTENDS Integers, Sequences, FiniteSets, TLC

\* ------------------------------------------------------------------------
\* 32-bit machine arithmetic
\* ------------------------------------------------------------------------
MaxInt == 2147483647

MinInt == -MaxInt - 1

RECURSIVE Pow2(_)
Pow2(k) == IF k = 0 THEN 1 ELSE 2 * Pow2(k - 1)

RECURSIVE Pow10(_)
Pow10(k) == IF k = 0 THEN 1 ELSE 10 * Pow10(k - 1)

Abs(n) == IF n < 0 THEN -n ELSE n

\* unsigned a < b on 32-bit patterns
U32Lt(a, b) == IF (a < 0) = (b < 0) THEN a < b ELSE b < 0

U32Le(a, b) == a = b \/ U32Lt(a, b)

\* (a + b) mod 2^32
U32Add(a, b) ==
    IF a >= 0 /\ b >= 0 /\ a > MaxInt - b THEN ((a - MaxInt) - 1) + ((b - MaxInt) - 1)
    ELSE IF a < 0 /\ b < 0 /\ a < MinInt - b THEN ((a + MaxInt) + 1) + ((b + MaxInt) + 1)
    ELSE a + b

\* logical shift right by one of a 32-bit pattern
U32Shr1(b) == IF b >= 0 THEN b \div 2 ELSE (((b - (b % 2)) \div 2) + MaxInt) + 1

\* (a * b) mod 2^32, by double-and-add over the bits of b
RECURSIVE U32Mul(_, _)
U32Mul(a, b) ==
    IF b = 0 \/ a = 0 THEN 0
    ELSE LET rest == U32Mul(U32Add(a, a), U32Shr1(b))
         IN  IF b % 2 = 1 THEN U32Add(a, rest) ELSE rest

\* the true (unbounded) value of a pattern is at most n, for a small natural n
U32AtMost(a, n) == a >= 0 /\ a <= n

\* ------------------------------------------------------------------------
\* float <-> decimal text
\* ------------------------------------------------------------------------
\* binary32 carries 24 significant bits
MantBits == 24

\* std::ostream default precision: significant decimal digits of operator<<(float)
Precision == 6

RECURSIVE Log2Floor(_)
Log2Floor(n) == IF n < 2 THEN 0 ELSE 1 + Log2Floor(n \div 2)

RECURSIVE Digits(_)
Digits(n) == IF n < 10 THEN 1 ELSE 1 + Digits(n \div 10)

\* round a >= 0 to a multiple of unit, ties to even
RoundToUnit(a, unit) ==
    LET q == a \div unit
        r == a % unit
        up == (2 * r > unit) \/ (2 * r = unit /\ q % 2 = 1)
    IN  (IF up THEN q + 1 ELSE q) * unit

\* the integer nearest to n that binary32 represents (operator>>(float&) of a decimal integer)
RoundToFloat(n) ==
    LET a == Abs(n)
        e == Log2Floor(a)
        v == IF e < MantBits THEN a ELSE RoundToUnit(a, Pow2(e - (MantBits - 1)))
    IN  IF n < 0 THEN -v ELSE v

\* binary32 pattern of an integer v that binary32 represents
F32Bits(v) ==
    LET a == Abs(v)
        e == Log2Floor(a)
        m == IF e <= 23 THEN a * Pow2(23 - e) ELSE a \div Pow2(e - 23)
        mag == (127 + e) * Pow2(23) + (m - Pow2(23))
    IN  IF v = 0 THEN 0
        ELSE IF v > 0 THEN mag
        ELSE (mag - MaxInt) - 1

\* the integer denoted by the binary32 pattern b (b is the pattern of an integer-valued float)
F32Int(b) ==
    LET mag == IF b >= 0 THEN b ELSE (b + MaxInt) + 1
        ex == mag \div Pow2(23)
        m == (mag % Pow2(23)) + Pow2(23)
        a == IF ex >= 150 THEN m * Pow2(ex - 150) ELSE m \div Pow2(150 - ex)
    IN  IF mag = 0 THEN 0
        ELSE IF b < 0 THEN -a ELSE a

\* operator>>(float&): decimal token -> float
ParseFloat(tok) == F32Bits(RoundToFloat(tok))

\* operator<<(float) with the default format: at most Precision significant digits
FormatFloat(b) ==
    LET v == F32Int(b)
        a == Abs(v)
        d == Digits(a)
        r == IF d <= Precision THEN a ELSE RoundToUnit(a, Pow10(d - Precision))
    IN  IF v < 0 THEN -r ELSE r

\* operator<<(uint32_t): the decimal token of a pattern below 2^31
FormatU32(u) == u

\* (uint32_t) f for a float f with 0 <= f < 2^31
CastU32(b) == F32Int(b)

\* the conversion (uint32_t) f is undefined for a float outside [0, 2^32)
CastDefined(b) == F32Int(b) >= 0

\* ------------------------------------------------------------------------
\* text lines
\* ------------------------------------------------------------------------
WS == [k |-> "ws", v |-> 0]

HASH == [k |-> "hash", v |-> 0]

Num(n) == [k |-> "num", v |-> n]

\* trim from start
RECURSIVE ltrim(_)
ltrim(s) == IF s # <<>> /\ Head(s).k = "ws" THEN ltrim(Tail(s)) ELSE s

\* trim from end
RECURSIVE rtrim(_)
rtrim(s) == IF s # <<>> /\ s[Len(s)].k = "ws" THEN rtrim(SubSeq(s, 1, Len(s) - 1)) ELSE s

\* trim from both ends
trim(s) == rtrim(ltrim(s))

\* while (iss >> n) integers.push_back(n): whitespace is skipped, the loop ends at the
\* first item that is not a number
RECURSIVE ExtractInts(_)
ExtractInts(s) ==
    IF s = <<>> THEN <<>>
    ELSE IF Head(s).k = "ws" THEN ExtractInts(Tail(s))
    ELSE IF Head(s).k = "num" THEN <<Head(s).v>> \o ExtractInts(Tail(s))
    ELSE <<>>

\* while (iss >> n) floats.push_back(n), n a float
ExtractFloats(s) ==
    LET ints == ExtractInts(s)
    IN  [i \in 1..Len(ints) |-> ParseFloat(ints[i])]

\* ------------------------------------------------------------------------
\* file system and stream handles
\* ------------------------------------------------------------------------
NoFile == [exists |-> FALSE, data |-> <<>>]

File(d) == [exists |-> TRUE, data |-> d]

\* throw_if_file_does_not_exist
FileExists(fsys, path) == fsys[path].exists

\* variant with a handle that is not released when the scope is left
FstreamDtorLeak(open) == open

\* the streams still open once a std::fstream local leaves scope: the destructor
\* closes the file, on a return and on a throw alike
FstreamDtor(open) == {}

\* ------------------------------------------------------------------------
\* read_node
\* ------------------------------------------------------------------------
\* Node node; the four counts are uninitialised (g) until the header is read
NewNode(g) ==
    [num_points |-> g, dimension |-> g, num_attributes |-> g, num_boundary_markers |-> g,
     points |-> <<>>, attributes |-> <<>>, boundary_markers |-> <<>>]

\* state of the reading loop of read_node / read_ele; val is the Node or Ele being filled
NewReader(val) ==
    [line_number |-> 0, header_read |-> FALSE, val |-> val,
     err |-> "none", what |-> "", ub |-> FALSE]

Throw(st, err, what) == [st EXCEPT !.err = err, !.what = what]

ReadNodeHeader(st, line) ==
    LET integers == ExtractInts(line)
    IN  IF Len(integers) # 4 THEN Throw(st, "MalformedHeader", "4 integers")
        ELSE LET nd == [st.val EXCEPT !.num_points = integers[1],
                                      !.dimension = integers[2],
                                      !.num_attributes = integers[3],
                                      !.num_boundary_markers = integers[4]]
             IN  IF U32Le(nd.num_points, 0)
                     THEN Throw(st, "InvalidHeaderField", "num_points")
                 ELSE IF ~(nd.dimension = 2 \/ nd.dimension = 3)
                     THEN Throw(st, "InvalidHeaderField", "dimension")
                 ELSE IF U32Lt(nd.num_attributes, 0)
                     THEN Throw(st, "InvalidHeaderField", "num_attributes")
                 ELSE IF ~(nd.num_boundary_markers = 1 \/ nd.num_boundary_markers = 0)
                     THEN Throw(st, "InvalidHeaderField", "num_boundary_markers")
                 ELSE [st EXCEPT !.val = nd, !.header_read = TRUE]

ReadNodeRecord(st, line) ==
    LET floats == ExtractFloats(line)
        nd == st.val
        dim == nd.dimension
        na == nd.num_attributes
        nbm == nd.num_boundary_markers
        expected == U32Add(U32Add(U32Add(1, dim), na), nbm)
        \* floats[offset] stays inside floats for every offset the three loops use
        inside == U32AtMost(na, Len(floats)) /\ 1 + dim + na + nbm <= Len(floats)
    IN  IF ~(expected >= 0 /\ Len(floats) = expected)
            THEN Throw(st, "MalformedRecord", "numbers")
        ELSE IF ~inside THEN [st EXCEPT !.ub = TRUE]
        ELSE [st EXCEPT
                !.val.points = @ \o SubSeq(floats, 2, 1 + dim),
                !.val.attributes = @ \o SubSeq(floats, 2 + dim, 1 + dim + na),
                !.val.boundary_markers = @ \o SubSeq(floats, 2 + dim + na, 1 + dim + na + nbm)]

\* variant that forgets comment lines
IsSkippedBlankOnly(line) == line = <<>>

\* a line is skipped when, trimmed, it is empty or begins with '#'
IsSkipped(line) == line = <<>> \/ line[1].k = "hash"

\* one iteration of while (getline(file, line))
ReadNodeLine(st, raw) ==
    LET counted == [st EXCEPT !.line_number = @ + 1]
        line == trim(raw)
    IN  IF IsSkipped(line) THEN counted
        ELSE IF ~st.header_read THEN ReadNodeHeader(counted, line)
        ELSE ReadNodeRecord(counted, line)

RECURSIVE ReadNodeLoop(_, _, _)
ReadNodeLoop(lines, i, st) ==
    IF i > Len(lines) \/ st.err # "none" \/ st.ub THEN st
    ELSE ReadNodeLoop(lines, i + 1, ReadNodeLine(st, lines[i]))

\* read_node(node_path): openOk is whether file.open succeeds, g the value of
\* uninitialised storage.  opened / closed are the streams the call opened and the
\* ones it closed with file.close().
read_node(fsys, path, openOk, g) ==
    LET fresh == NewReader(NewNode(g))
        h == {<<"read_node", path>>}
    IN  IF ~FileExists(fsys, path)
            THEN [st |-> Throw(fresh, "FileNotFound", path), opened |-> {}, closed |-> {}]
        ELSE IF ~openOk
            THEN [st |-> Throw(fresh, "IoError", path), opened |-> {}, closed |-> {}]
        ELSE LET st == ReadNodeLoop(fsys[path].data, 1, fresh)
             IN  [st |-> st, opened |-> h,
                  closed |-> IF st.err = "none" /\ ~st.ub THEN h ELSE {}]

\* ------------------------------------------------------------------------
\* read_ele
\* ------------------------------------------------------------------------
NewEle(g) ==
    [num_tetrahedra |-> g, nodes_per_tetrahedron |-> g, num_attributes |-> g,
     nodes |-> <<>>, attributes |-> <<>>]

ReadEleHeader(st, line) ==
    LET integers == ExtractInts(line)
    IN  IF Len(integers) # 3 THEN Throw(st, "MalformedHeader", "3 integers")
        ELSE LET el == [st.val EXCEPT !.num_tetrahedra = integers[1],
                                      !.nodes_per_tetrahedron = integers[2],
                                      !.num_attributes = integers[3]]
             IN  IF U32Le(el.num_tetrahedra, 0)
                     THEN Throw(st, "InvalidHeaderField", "num_tetrahedra")
                 ELSE IF ~(el.nodes_per_tetrahedron = 4 \/ el.nodes_per_tetrahedron = 10)
                     THEN Throw(st, "InvalidHeaderField", "nodes_per_tetrahedron")
                 ELSE IF U32Lt(el.num_attributes, 0)
                     THEN Throw(st, "InvalidHeaderField", "num_attributes")
                 ELSE [st EXCEPT !.val = el, !.header_read = TRUE]

ReadEleRecord(st, line) ==
    LET floats == ExtractFloats(line)
        el == st.val
        npt == el.nodes_per_tetrahedron
        na == el.num_attributes
        expected == U32Add(U32Add(1, npt), na)
        inside == U32AtMost(na, Len(floats)) /\ 1 + npt + na <= Len(floats)
        refs == SubSeq(floats, 2, 1 + npt)
    IN  IF ~(expected >= 0 /\ Len(floats) = expected)
            THEN Throw(st, "MalformedRecord", "numbers")
        ELSE IF ~inside THEN [st EXCEPT !.ub = TRUE]
        ELSE IF \E i \in 1..Len(refs) : ~CastDefined(refs[i]) THEN [st EXCEPT !.ub = TRUE]
        ELSE [st EXCEPT
                !.val.nodes = @ \o [i \in 1..Len(refs) |-> U32Add(CastU32(refs[i]), -1)],
                !.val.attributes = @ \o SubSeq(floats, 2 + npt, 1 + npt + na)]

ReadEleLine(st, raw) ==
    LET counted == [st EXCEPT !.line_number = @ + 1]
        line == trim(raw)
    IN  IF IsSkipped(line) THEN counted
        ELSE IF ~st.header_read THEN ReadEleHeader(counted, line)
        ELSE ReadEleRecord(counted, line)

RECURSIVE ReadEleLoop(_, _, _)
ReadEleLoop(lines, i, st) ==
    IF i > Len(lines) \/ st.err # "none" \/ st.ub THEN st
    ELSE ReadEleLoop(lines, i + 1, ReadEleLine(st, lines[i]))

\* read_ele(ele_path): a failed open is only printed; getline on the unopened stream
\* then yields no line
read_ele(fsys, path, openOk, g) ==
    LET fresh == NewReader(NewEle(g))
        h == {<<"read_ele", path>>}
    IN  IF ~FileExists(fsys, path)
            THEN [st |-> Throw(fresh, "FileNotFound", path), opened |-> {}, closed |-> {}]
        ELSE IF ~openOk
            THEN [st |-> fresh, opened |-> {}, closed |-> {}]
        ELSE LET st == ReadEleLoop(fsys[path].data, 1, fresh)
             IN  [st |-> st, opened |-> h,
                  closed |-> IF st.err = "none" /\ ~st.ub THEN h ELSE {}]

\* ------------------------------------------------------------------------
\* write_node / write_ele
\* ------------------------------------------------------------------------
\* v[i] for a zero-based uint32 index i; an index past the end reads g
At(v, i, g) == IF U32AtMost(i, Len(v) - 1) THEN v[i + 1] ELSE g

\* v[i * width + j] is inside v for every i < count and j < width
Covers(v, count, width) ==
    \/ width = 0
    \/ count = 0
    \/ /\ U32AtMost(count, Len(v))
       /\ U32AtMost(width, Len(v))
       /\ count * width <= Len(v)

\* the check  v.size() < (count * width)  of the writers, the product taken in uint32_t
TooShort(v, count, width) == ~U32AtMost(U32Mul(count, width), Len(v))

\* file << v[i * width + 0] << " " << ... for one record i
Fields(v, i, width, g) ==
    [j \in 1..width |-> Num(FormatFloat(At(v, U32Add(U32Mul(i, width), j - 1), g)))]

NodeHeaderCheck(node) ==
    IF U32Le(node.num_points, 0) THEN "num_points"
    ELSE IF ~(node.dimension = 2 \/ node.dimension = 3) THEN "dimension"
    ELSE IF U32Lt(node.num_attributes, 0) THEN "num_attributes"
    ELSE IF ~(node.num_boundary_markers = 1 \/ node.num_boundary_markers = 0)
        THEN "num_boundary_markers"
    ELSE "ok"

\* the array lengths write_node checks before it writes
NodeSizeCheck(node) ==
    IF TooShort(node.points, node.num_points, node.dimension) THEN "points"
    ELSE IF TooShort(node.attributes, node.num_points, node.num_attributes) THEN "attributes"
    ELSE "ok"

NodeCovered(node) ==
    /\ Covers(node.points, node.num_points, node.dimension)
    /\ Covers(node.attributes, node.num_points, node.num_attributes)
    /\ Covers(node.boundary_markers, node.num_points, node.num_boundary_markers)

\* the lines write_node emits
NodeText(node, g) ==
    LET header == <<Num(FormatU32(node.num_points)), Num(FormatU32(node.dimension)),
                    Num(FormatU32(node.num_attributes)),
                    Num(FormatU32(node.num_boundary_markers))>>
        rec(i) == <<Num(FormatU32(i))>>
                  \o Fields(node.points, i, node.dimension, g)
                  \o Fields(node.attributes, i, node.num_attributes, g)
                  \o Fields(node.boundary_markers, i, node.num_boundary_markers, g)
                  \o <<WS>>
    IN  <<header>> \o [i \in 1..node.num_points |-> rec(i - 1)]

\* write_node(node_path, node).  file is what node_path holds when the call ends
\* (keep: untouched); ub: an element past the end of an array was read, reading g;
\* fatal: the reads run on for 2^31 records or more and cannot all land in mapped
\* memory.
write_node(path, node, openOk, g) ==
    LET h == {<<"write_node", path>>}
        fail(e, w) == [err |-> e, what |-> w, ub |-> FALSE, fatal |-> FALSE, keep |-> FALSE,
                       file |-> File(<<>>), opened |-> h, closed |-> {}]
    IN  IF ~openOk
            THEN [err |-> "IoError", what |-> path, ub |-> FALSE, fatal |-> FALSE,
                  keep |-> TRUE, file |-> NoFile, opened |-> {}, closed |-> {}]
        ELSE IF NodeHeaderCheck(node) # "ok"
            THEN fail("InvalidHeaderField", NodeHeaderCheck(node))
        ELSE IF NodeSizeCheck(node) # "ok"
            THEN fail("SizeMismatch", NodeSizeCheck(node))
        ELSE IF ~NodeCovered(node)
            THEN LET short == /\ U32AtMost(node.num_points, Len(node.points))
                              /\ U32AtMost(node.num_attributes, Len(node.attributes))
                 IN  [err |-> "none", what |-> "", ub |-> TRUE, fatal |-> ~short,
                      keep |-> FALSE,
                      file |-> IF short THEN File(NodeText(node, g)) ELSE File(<<>>),
                      opened |-> h, closed |-> h]
        ELSE [err |-> "none", what |-> "", ub |-> FALSE, fatal |-> FALSE, keep |-> FALSE,
              file |-> File(NodeText(node, g)), opened |-> h, closed |-> h]

EleHeaderCheck(ele) ==
    IF U32Le(ele.num_tetrahedra, 0) THEN "num_tetrahedra"
    ELSE IF ~(ele.nodes_per_tetrahedron = 4 \/ ele.nodes_per_tetrahedron = 10)
        THEN "nodes_per_tetrahedron"
    ELSE IF U32Lt(ele.num_attributes, 0) THEN "num_attributes"
    ELSE "ok"

EleSizeCheck(ele) ==
    IF TooShort(ele.nodes, ele.num_tetrahedra, ele.nodes_per_tetrahedron) THEN "nodes"
    ELSE IF TooShort(ele.attributes, ele.num_tetrahedra, ele.num_attributes)
        THEN "attributes"
    ELSE "ok"

EleCovered(ele) ==
    /\ Covers(ele.nodes, ele.num_tetrahedra, ele.nodes_per_tetrahedron)
    /\ Covers(ele.attributes, ele.num_tetrahedra, ele.num_attributes)

\* file << ele.nodes[i * nodes_per_tetrahedron + j] + 1 << " "
NodeRefs(ele, i, g) ==
    [j \in 1..ele.nodes_per_tetrahedron |->
        Num(FormatU32(U32Add(
            At(ele.nodes, U32Add(U32Mul(i, ele.nodes_per_tetrahedron), j - 1), g), 1)))]

EleText(ele, g) ==
    LET header == <<Num(FormatU32(ele.num_tetrahedra)),
                    Num(FormatU32(ele.nodes_per_tetrahedron)),
                    Num(FormatU32(ele.num_attributes))>>
        rec(i) == <<Num(FormatU32(i))>>
                  \o NodeRefs(ele, i, g)
                  \o Fields(ele.attributes, i, ele.num_attributes, g)
                  \o <<WS>>
    IN  <<header>> \o [i \in 1..ele.num_tetrahedra |-> rec(i - 1)]

write_ele(path, ele, openOk, g) ==
    LET h == {<<"write_ele", path>>}
        fail(e, w) == [err |-> e, what |-> w, ub |-> FALSE, fatal |-> FALSE, keep |-> FALSE,
                       file |-> File(<<>>), opened |-> h, closed |-> {}]
    IN  IF ~openOk
            THEN [err |-> "IoError", what |-> path, ub |-> FALSE, fatal |-> FALSE,
                  keep |-> TRUE, file |-> NoFile, opened |-> {}, closed |-> {}]
        ELSE IF EleHeaderCheck(ele) # "ok"
            THEN fail("InvalidHeaderField", EleHeaderCheck(ele))
        ELSE IF EleSizeCheck(ele) # "ok"
            THEN fail("SizeMismatch", EleSizeCheck(ele))
        ELSE IF ~EleCovered(ele)
            THEN LET short == /\ U32AtMost(ele.num_tetrahedra, Len(ele.nodes))
                              /\ U32AtMost(ele.num_attributes, Len(ele.attributes))
                 IN  [err |-> "none", what |-> "", ub |-> TRUE, fatal |-> ~short,
                      keep |-> FALSE,
                      file |-> IF short THEN File(EleText(ele, g)) ELSE File(<<>>),
                      opened |-> h, closed |-> h]
        ELSE [err |-> "none", what |-> "", ub |-> FALSE, fatal |-> FALSE, keep |-> FALSE,
              file |-> File(EleText(ele, g)), opened |-> h, closed |-> h]

\* ------------------------------------------------------------------------
\* binary mesh file: a sequence of 32-bit words
\* ------------------------------------------------------------------------
\* the longest vector the model builds; resize to a longer one throws std::bad_alloc,
\* and a read that runs further past the end of an array ends the process
AllocLimit == 1024

\* file.write((char*) v.data(), count * sizeof(T)): the first count words of v,
\* a word past the end of v reading g
Words(v, count, g) == [i \in 1..count |-> At(v, i - 1, g)]

\* scalars[i] = (num_attributes > 0) ? attributes[i * num_attributes + attribute_idx] : 0.0f
ScalarIndex(node, attribute_idx, i) ==
    U32Add(U32Mul(i, node.num_attributes), attribute_idx)

Scalars(node, attribute_idx, g) ==
    [i \in 1..node.num_points |->
        IF U32Lt(0, node.num_attributes)
        THEN At(node.attributes, ScalarIndex(node, attribute_idx, i - 1), g)
        ELSE F32Bits(0)]

\* the checks of write_node_ele_as_binary, in the order it makes them
BinaryCheck(node, ele, attribute_idx, isOpen) ==
    IF U32Le(node.num_attributes, attribute_idx) /\ attribute_idx # 0
        THEN "AttributeIndexOutOfRange"
    ELSE IF node.dimension # 3 THEN "UnsupportedDimension"
    ELSE IF ele.nodes_per_tetrahedron # 4 THEN "UnsupportedTopology"
    ELSE IF ~isOpen THEN "IoError"
    ELSE "none"

\* every element the export reads lies inside its array
BinaryCovered(node, ele, attribute_idx) ==
    /\ U32AtMost(U32Mul(node.num_points, 3), Len(node.points))
    /\ U32AtMost(node.num_points, Len(node.points))
    /\ \/ node.num_attributes = 0
       \/ \A i \in 0..(node.num_points - 1) :
             U32AtMost(ScalarIndex(node, attribute_idx, i), Len(node.attributes) - 1)
    /\ U32AtMost(U32Mul(ele.num_tetrahedra, 4), Len(ele.nodes))

BinaryWords(node, ele, attribute_idx, g) ==
    LET points_per_primitive == 4
        num_indices == U32Mul(ele.num_tetrahedra, 4)
    IN  <<points_per_primitive, node.num_points, num_indices>>
        \o Words(node.points, U32Mul(node.num_points, 3), g)
        \o Scalars(node, attribute_idx, g)
        \o Words(ele.nodes, num_indices, g)

\* write_node_ele_as_binary(node_path, ele_path, attribute_idx, binary_path)
write_node_ele_as_binary(fsys, node_path, ele_path, attribute_idx, binary_path, openE, openN, openB, g) ==
    LET re == read_ele(fsys, ele_path, openE, g)
        rn == read_node(fsys, node_path, openN, g)
        ele == re.st.val
        node == rn.st.val
        h == {<<"write_node_ele_as_binary", binary_path>>}
        base == [err |-> "none", what |-> "", line |-> 0, ub |-> FALSE, fatal |-> FALSE,
                 keep |-> TRUE,
                 touched |-> FALSE, file |-> NoFile, node |-> node, ele |-> ele,
                 opened |-> re.opened \cup rn.opened, closed |-> re.closed \cup rn.closed]
        check == BinaryCheck(node, ele, attribute_idx, openB)
        \* file.open(binary_path, out | trunc | binary) comes before the checks
        touched == openB
        opened == IF touched THEN h ELSE {}
    IN  IF re.st.err # "none" \/ re.st.ub
            THEN [base EXCEPT !.err = re.st.err, !.what = "ele", !.line = re.st.line_number,
                              !.ub = re.st.ub, !.fatal = re.st.ub,
                              !.opened = re.opened, !.closed = re.closed,
                              !.node = NewNode(g)]
        ELSE IF rn.st.err # "none" \/ rn.st.ub
            THEN [base EXCEPT !.err = rn.st.err, !.what = "node", !.line = rn.st.line_number,
                              !.ub = rn.st.ub, !.fatal = rn.st.ub]
        ELSE IF check # "none"
            THEN [base EXCEPT !.err = check, !.keep = ~touched, !.touched = touched,
                              !.file = File(<<>>), !.opened = @ \cup opened]
        ELSE IF ~BinaryCovered(node, ele, attribute_idx)
            THEN LET short == /\ U32AtMost(node.num_points, AllocLimit)
                              /\ U32AtMost(U32Mul(node.num_points, 3), AllocLimit)
                              /\ U32AtMost(U32Mul(ele.num_tetrahedra, 4), AllocLimit)
                 IN  [base EXCEPT !.ub = TRUE, !.fatal = ~short, !.keep = FALSE,
                         !.touched = TRUE,
                         !.file = IF short
                                  THEN File(BinaryWords(node, ele, attribute_idx, g))
                                  ELSE File(<<>>),
                         !.opened = @ \cup opened, !.closed = @ \cup opened]
        ELSE [base EXCEPT !.keep = FALSE, !.touched = TRUE,
                          !.file = File(BinaryWords(node, ele, attribute_idx, g)),
                          !.opened = @ \cup opened, !.closed = @ \cup opened]

\* write_to_binary(points, scalars, indices, points_per_primitive, binary_path):
\* the open is never tested; on a stream that is not open every write does nothing
write_to_binary(points, scalars, indices, points_per_primitive, path, openOk) ==
    LET h == {<<"write_to_binary", path>>}
        num_points == Len(points) \div 3
        num_indices == Len(indices)
    IN  IF ~openOk
            THEN [keep |-> TRUE, file |-> NoFile, opened |-> {}, closed |-> {}]
        ELSE [keep |-> FALSE,
              file |-> File(<<points_per_primitive, num_points, num_indices>>
                            \o points \o scalars \o indices),
              opened |-> h, closed |-> h]

\* v.resize(n) on an empty vector followed by file.read of n words starting at word
\* `from` of data: words the file does not hold stay zero
ReadWords(data, from, n) ==
    [i \in 1..n |-> IF from + i - 1 <= Len(data) THEN data[from + i - 1] ELSE 0]

\* read_binary(binary_path, points_per_primitive, points, scalars, indices); ppp0 is the
\* caller's points_per_primitive before the call.  A read past the end of the file
\* fails and leaves its target as it was, and every later read fails too.
read_binary(fsys, path, openOk, ppp0, g) ==
    LET h == {<<"read_binary", path>>}
        data == fsys[path].data
        fail(e) == [err |-> e, ub |-> FALSE, points_per_primitive |-> ppp0,
                    points |-> <<>>, scalars |-> <<>>, indices |-> <<>>,
                    opened |-> {}, closed |-> {}]
        ppp == IF Len(data) >= 1 THEN data[1] ELSE ppp0
        num_points == IF Len(data) >= 2 THEN data[2] ELSE g
        num_indices == IF Len(data) >= 3 THEN data[3] ELSE g
        np3 == U32Mul(num_points, 3)
    IN  IF ~FileExists(fsys, path) THEN fail("FileNotFound")
        ELSE IF ~openOk THEN fail("IoError")
        ELSE IF ~(U32AtMost(np3, AllocLimit) /\ U32AtMost(num_points, AllocLimit)
                  /\ U32AtMost(num_indices, AllocLimit))
            THEN [fail("BadAlloc") EXCEPT !.opened = h]
        ELSE [err |-> "none", ub |-> Len(data) < 3, points_per_primitive |-> ppp,
              points |-> ReadWords(data, 4, np3),
              scalars |-> ReadWords(data, 4 + np3, num_points),
              indices |-> ReadWords(data, 4 + np3 + num_points, num_indices),
              opened |-> h, closed |-> h]

\* ------------------------------------------------------------------------
\* bounds and inputs
\* ------------------------------------------------------------------------
\* body records in an input file
MaxRecords == 2

\* blank or comment lines inserted at one place of an input file
MaxSkip == 2

\* largest attribute index asked of the binary export
MaxAttrIdx == 2

Paths == {"in.node", "out.node", "in.ele", "out.ele", "mesh.bin"}

\* what uninitialised storage may hold: the patterns of 0.0f and 7.0f
Garbage == {F32Bits(0), F32Bits(7)}

\* values are ValueBase + 10 * record + field: exact in 6 digits from base 0, not from 1234560
ValueBases == {0, 1234560}

\* node references are RefBase + nodes * record + position: from 1, from 0, and past 2^24
RefBases == {0, -1, 16777216}

SkipLines == {<<>>, <<WS, WS>>, <<HASH, Num(1), Num(2)>>, <<WS, HASH, WS>>}

Record(i, width, vb) == <<Num(i)>> \o [j \in 1..(width - 1) |-> Num(vb + 10 * i + j)]

Max(a, b) == IF a > b THEN a ELSE b

\* header line, then r records of 1 + dimension + attributes + markers + delta numbers
NodeLines(hdr, r, delta, vb) ==
    LET width == IF Len(hdr) = 4 THEN Max(1, 1 + hdr[2] + hdr[3] + hdr[4] + delta) ELSE 4
    IN  <<[j \in 1..Len(hdr) |-> Num(hdr[j])]>> \o [i \in 1..r |-> Record(i, width, vb)]

EleRecord(i, npt, na, rb, vb) ==
    <<Num(i)>> \o [j \in 1..npt |-> Num(rb + npt * (i - 1) + j)]
               \o [j \in 1..na |-> Num(vb + 10 * i + j)]

EleLines(hdr, r, delta, rb, vb) ==
    LET npt == IF Len(hdr) = 3 THEN Max(0, hdr[2] + delta) ELSE 4
        na == IF Len(hdr) = 3 THEN Max(0, hdr[3]) ELSE 0
    IN  <<[j \in 1..Len(hdr) |-> Num(hdr[j])]>> \o [i \in 1..r |-> EleRecord(i, npt, na, rb, vb)]

\* c copies of the line skip put after line pos of lines
Insert(lines, pos, skip, c) ==
    SubSeq(lines, 1, pos) \o [i \in 1..c |-> skip] \o SubSeq(lines, pos + 1, Len(lines))

NodeHeaders ==
    {<<np, dim, na, nbm>> : np \in {-1, 0, 1, 2}, dim \in {2, 3, 4},
                            na \in {-1, 0, 1}, nbm \in {0, 1, 2}}
    \cup {<<1, 3, 0>>, <<1, 3, 0, 0, 0>>}

EleHeaders ==
    {<<nt, npt, na>> : nt \in {-1, 0, 1, 2}, npt \in {4, 6, 10}, na \in {-1, 0, 1}}
    \cup {<<1, 4>>, <<1, 4, 0, 0>>}

\* the headers of the files that get blank and comment lines: valid, bad dimension,
\* too few integers, attribute count -1
DecoratedNodeHeaders == {<<2, 3, 1, 1>>, <<2, 4, 0, 0>>, <<1, 3, 0>>, <<1, 2, -1, 0>>}

DecoratedEleHeaders == {<<2, 4, 1>>, <<2, 6, 0>>, <<1, 4>>, <<1, 4, -1>>}

NodeFiles ==
    {<<>>}
    \cup {NodeLines(hdr, r, delta, vb) :
             hdr \in NodeHeaders, r \in 0..MaxRecords, delta \in {0, 1}, vb \in ValueBases}
    \cup UNION {{Insert(NodeLines(hdr, r, delta, 0), pos, skip, c) :
                    pos \in 0..(r + 1), skip \in SkipLines, c \in 1..MaxSkip} :
                hdr \in DecoratedNodeHeaders, r \in 0..MaxRecords, delta \in {0, 1}}

EleFiles ==
    {<<>>}
    \cup {EleLines(hdr, r, delta, rb, vb) :
             hdr \in EleHeaders, r \in 0..MaxRecords, delta \in {0, 1}, rb \in RefBases,
             vb \in ValueBases}
    \cup UNION {{Insert(EleLines(hdr, r, delta, 0, 0), pos, skip, c) :
                    pos \in 0..(r + 1), skip \in SkipLines, c \in 1..MaxSkip} :
                hdr \in DecoratedEleHeaders, r \in 0..MaxRecords, delta \in {0, 1}}

\* caller-assembled structures: arrays of the declared length less short[k]
Values(n, vb) == [i \in 1..Max(0, n) |-> F32Bits(vb + i)]

AssembledNodes ==
    {[num_points |-> np, dimension |-> dim, num_attributes |-> na,
      num_boundary_markers |-> nbm,
      points |-> Values(np * dim - sp, vb),
      attributes |-> Values(np * na - sa, vb),
      boundary_markers |-> Values(np * nbm - sm, 0)] :
        np \in {0, 1, 2}, dim \in {2, 3, 4}, na \in {0, 1}, nbm \in {0, 1},
        sp \in {0, 1}, sa \in {0, 1}, sm \in {0, 1}, vb \in ValueBases}
    \cup {[num_points |-> MinInt, dimension |-> 2, num_attributes |-> 0,
           num_boundary_markers |-> 0, points |-> <<>>, attributes |-> <<>>,
           boundary_markers |-> <<>>]}

AssembledEles ==
    {[num_tetrahedra |-> nt, nodes_per_tetrahedron |-> npt, num_attributes |-> na,
      nodes |-> [i \in 1..Max(0, nt * npt - sn) |-> rb + i - 1],
      attributes |-> Values(nt * na - sa, vb)] :
        nt \in {0, 1, 2}, npt \in {4, 6, 10}, na \in {0, 1},
        sn \in {0, 1}, sa \in {0, 1}, rb \in RefBases, vb \in ValueBases}

\* the file pairs of the export runs: well-formed lines, any number of records
ExportNodeFiles ==
    {NodeLines(<<np, dim, na, 0>>, r, 0, 0) :
        np \in {1, 2}, dim \in {2, 3}, na \in {0, 1, 2}, r \in 0..MaxRecords}

ExportEleFiles ==
    {EleLines(<<nt, npt, 0>>, r, 0, rb, 0) :
        nt \in {1, 2}, npt \in {4, 10}, r \in 0..MaxRecords, rb \in {0}}

OldBinary == <<9, 9, 9>>

RawArrays ==
    {[points |-> Values(p, 0), scalars |-> Values(sc, 100), indices |-> [i \in 1..n |-> i - 1],
      points_per_primitive |-> ppp] :
        p \in {0, 3, 4, 6}, sc \in 0..2, n \in {0, 4}, ppp \in {3, 4}}

\* ------------------------------------------------------------------------
\* state
\* ------------------------------------------------------------------------
VARIABLES
    fs,             \* path -> file
    handles,        \* the streams that are open
    pc,             \* the call the caller makes next
    node,           \* the caller's Node (parsed from in.node, or assembled)
    ele,            \* the caller's Ele (parsed from in.ele, or assembled)
    node2,          \* the Node parsed back from out.node
    ele2,           \* the Ele parsed back from out.ele
    attribute_idx,  \* the attribute the binary export is asked for
    raw,            \* the arrays given to write_to_binary
    bin,            \* what read_binary returned
    res             \* outcome of the last call

vars == <<fs, handles, pc, node, ele, node2, ele2, attribute_idx, raw, bin, res>>

\* open: the call opened a stream of its own
NoRes == [op |-> "", path |-> "", err |-> "none", what |-> "", line |-> 0,
          header_read |-> FALSE, ub |-> FALSE, open |-> FALSE]

NoBin == [points_per_primitive |-> 0, points |-> <<>>, scalars |-> <<>>, indices |-> <<>>]

NoRaw == [points |-> <<>>, scalars |-> <<>>, indices |-> <<>>, points_per_primitive |-> 0]

EmptyFs == [p \in Paths |-> NoFile]

InitCommon ==
    /\ handles = {}
    /\ node2 = NewNode(0)
    /\ ele2 = NewEle(0)
    /\ bin = NoBin
    /\ res = NoRes

\* a caller that parses in.node, writes it to out.node and parses that
InitNodeFile ==
    /\ \E f \in NodeFiles : fs = [EmptyFs EXCEPT !["in.node"] = File(f)]
    /\ pc = "read_node"
    /\ node = NewNode(0) /\ ele = NewEle(0) /\ attribute_idx = 0 /\ raw = NoRaw

\* a caller that writes a Node it assembled to out.node and parses that
InitNodeMem ==
    /\ fs = EmptyFs
    /\ pc = "write_node"
    /\ node \in AssembledNodes
    /\ ele = NewEle(0) /\ attribute_idx = 0 /\ raw = NoRaw

InitEleFile ==
    /\ \E f \in EleFiles : fs = [EmptyFs EXCEPT !["in.ele"] = File(f)]
    /\ pc = "read_ele"
    /\ node = NewNode(0) /\ ele = NewEle(0) /\ attribute_idx = 0 /\ raw = NoRaw

InitEleMem ==
    /\ fs = EmptyFs
    /\ pc = "write_ele"
    /\ ele \in AssembledEles
    /\ node = NewNode(0) /\ attribute_idx = 0 /\ raw = NoRaw

\* a caller that exports in.node / in.ele to mesh.bin and imports that
InitExport ==
    /\ \E nf \in ExportNodeFiles, ef \in ExportEleFiles, old \in {NoFile, File(OldBinary)} :
          fs = [EmptyFs EXCEPT !["in.node"] = File(nf), !["in.ele"] = File(ef),
                               !["mesh.bin"] = old]
    /\ pc = "export"
    /\ attribute_idx \in 0..MaxAttrIdx
    /\ node = NewNode(0) /\ ele = NewEle(0) /\ raw = NoRaw

\* a caller that writes arrays of its own to mesh.bin and imports that
InitRaw ==
    /\ fs = EmptyFs
    /\ pc = "write_raw"
    /\ raw \in RawArrays
    /\ node = NewNode(0) /\ ele = NewEle(0) /\ attribute_idx = 0

Init ==
    /\ InitCommon
    /\ \/ InitNodeFile
       \/ InitNodeMem
       \/ InitEleFile
       \/ InitEleMem
       \/ InitExport
       \/ InitRaw

\* the streams open after a call: those it opened and did not close, less what the
\* destructors of its std::fstream locals close
AfterCall(r) == handles \cup FstreamDtor(r.opened \ r.closed)

ReaderRes(op, path, r) ==
    [op |-> op, path |-> path, err |-> r.st.err, what |-> r.st.what,
     line |-> r.st.line_number, header_read |-> r.st.header_read, ub |-> r.st.ub,
     open |-> r.opened # {}]

WriterRes(op, path, r) ==
    [op |-> op, path |-> path, err |-> r.err, what |-> r.what, line |-> 0,
     header_read |-> FALSE, ub |-> r.ub, open |-> r.opened # {}]

\* where the caller goes after a call: on after a normal return, "done" after a throw;
\* undefined behaviour may also end the process.  A reader that runs past the end of
\* floats pushes 2^32 - 1 values: the process ends on an unmapped read.
NextPc(r_err, r_ub, on, crash) ==
    IF r_ub /\ crash THEN "crashed"
    ELSE IF r_err # "none" THEN "done"
    ELSE on

\* read_node("in.node")
ReadNode ==
    /\ pc = "read_node"
    /\ \E openOk \in BOOLEAN, g \in Garbage :
          \E r \in {read_node(fs, "in.node", openOk, g)} :
              /\ res' = ReaderRes("read_node", "in.node", r)
              /\ node' = IF r.st.err = "none" /\ ~r.st.ub THEN r.st.val ELSE node
              /\ pc' = NextPc(r.st.err, r.st.ub, "write_node", r.st.ub)
              /\ handles' = IF r.st.ub THEN {} ELSE AfterCall(r)
    /\ UNCHANGED <<fs, ele, node2, ele2, attribute_idx, raw, bin>>

\* write_node("out.node", node)
WriteNode ==
    /\ pc = "write_node"
    /\ \E openOk \in BOOLEAN, g \in Garbage :
          \E r \in {write_node("out.node", node, openOk, g)} :
          \E crash \in IF r.fatal THEN {TRUE} ELSE IF r.ub THEN BOOLEAN ELSE {FALSE} :
              /\ res' = WriterRes("write_node", "out.node", r)
              /\ fs' = IF r.keep THEN fs
                       ELSE IF r.ub /\ crash THEN [fs EXCEPT !["out.node"] = File(<<>>)]
                       ELSE [fs EXCEPT !["out.node"] = r.file]
              /\ pc' = NextPc(r.err, r.ub, "reread_node", crash)
              /\ handles' = IF r.ub /\ crash THEN {} ELSE AfterCall(r)
    /\ UNCHANGED <<node, ele, node2, ele2, attribute_idx, raw, bin>>

\* read_node("out.node")
RereadNode ==
    /\ pc = "reread_node"
    /\ \E openOk \in BOOLEAN, g \in Garbage :
          \E r \in {read_node(fs, "out.node", openOk, g)} :
              /\ res' = ReaderRes("read_node", "out.node", r)
              /\ node2' = IF r.st.err = "none" /\ ~r.st.ub THEN r.st.val ELSE node2
              /\ pc' = NextPc(r.st.err, r.st.ub, "done", r.st.ub)
              /\ handles' = IF r.st.ub THEN {} ELSE AfterCall(r)
    /\ UNCHANGED <<fs, node, ele, ele2, attribute_idx, raw, bin>>

\* read_ele("in.ele")
ReadEle ==
    /\ pc = "read_ele"
    /\ \E openOk \in BOOLEAN, g \in Garbage :
          \E r \in {read_ele(fs, "in.ele", openOk, g)} :
              /\ res' = ReaderRes("read_ele", "in.ele", r)
              /\ ele' = IF r.st.err = "none" /\ ~r.st.ub THEN r.st.val ELSE ele
              /\ pc' = NextPc(r.st.err, r.st.ub, "write_ele", r.st.ub)
              /\ handles' = IF r.st.ub THEN {} ELSE AfterCall(r)
    /\ UNCHANGED <<fs, node, node2, ele2, attribute_idx, raw, bin>>

\* write_ele("out.ele", ele)
WriteEle ==
    /\ pc = "write_ele"
    /\ \E openOk \in BOOLEAN, g \in Garbage :
          \E r \in {write_ele("out.ele", ele, openOk, g)} :
          \E crash \in IF r.fatal THEN {TRUE} ELSE IF r.ub THEN BOOLEAN ELSE {FALSE} :
              /\ res' = WriterRes("write_ele", "out.ele", r)
              /\ fs' = IF r.keep THEN fs
                       ELSE IF r.ub /\ crash THEN [fs EXCEPT !["out.ele"] = File(<<>>)]
                       ELSE [fs EXCEPT !["out.ele"] = r.file]
              /\ pc' = NextPc(r.err, r.ub, "reread_ele", crash)
              /\ handles' = IF r.ub /\ crash THEN {} ELSE AfterCall(r)
    /\ UNCHANGED <<node, ele, node2, ele2, attribute_idx, raw, bin>>

\* read_ele("out.ele")
RereadEle ==
    /\ pc = "reread_ele"
    /\ \E openOk \in BOOLEAN, g \in Garbage :
          \E r \in {read_ele(fs, "out.ele", openOk, g)} :
              /\ res' = ReaderRes("read_ele", "out.ele", r)
              /\ ele2' = IF r.st.err = "none" /\ ~r.st.ub THEN r.st.val ELSE ele2
              /\ pc' = NextPc(r.st.err, r.st.ub, "done", r.st.ub)
              /\ handles' = IF r.st.ub THEN {} ELSE AfterCall(r)
    /\ UNCHANGED <<fs, node, ele, node2, attribute_idx, raw, bin>>

\* write_node_ele_as_binary("in.node", "in.ele", attribute_idx, "mesh.bin")
Export ==
    /\ pc = "export"
    /\ \E deny \in {"", "in.ele", "in.node", "mesh.bin"}, g \in Garbage :
          \E r \in {write_node_ele_as_binary(fs, "in.node", "in.ele", attribute_idx,
                          "mesh.bin", deny # "in.ele", deny # "in.node", deny # "mesh.bin", g)} :
          \E crash \in IF r.fatal THEN {TRUE} ELSE IF r.ub THEN BOOLEAN ELSE {FALSE} :
              /\ res' = [op |-> "export", path |-> "mesh.bin", err |-> r.err,
                         what |-> r.what, line |-> r.line, header_read |-> FALSE,
                         ub |-> r.ub, open |-> r.touched]
              /\ node' = r.node
              /\ ele' = r.ele
              /\ fs' = IF r.keep THEN fs
                       ELSE IF r.ub /\ crash THEN [fs EXCEPT !["mesh.bin"] = File(<<>>)]
                       ELSE [fs EXCEPT !["mesh.bin"] = r.file]
              /\ pc' = NextPc(r.err, r.ub, "import", crash)
              /\ handles' = IF r.ub /\ crash THEN {} ELSE AfterCall(r)
    /\ UNCHANGED <<node2, ele2, attribute_idx, raw, bin>>

\* write_to_binary(points, scalars, indices, points_per_primitive, "mesh.bin")
WriteRaw ==
    /\ pc = "write_raw"
    /\ \E openOk \in BOOLEAN :
          \E r \in {write_to_binary(raw.points, raw.scalars, raw.indices,
                                     raw.points_per_primitive, "mesh.bin", openOk)} :
              /\ fs' = IF r.keep THEN fs ELSE [fs EXCEPT !["mesh.bin"] = r.file]
              /\ res' = [NoRes EXCEPT !.op = "write_to_binary", !.path = "mesh.bin",
                                      !.open = r.opened # {}]
              /\ handles' = AfterCall(r)
    /\ pc' = "import"
    /\ UNCHANGED <<node, ele, node2, ele2, attribute_idx, raw, bin>>

\* read_binary("mesh.bin", points_per_primitive, points, scalars, indices)
Import ==
    /\ pc = "import"
    /\ \E openOk \in BOOLEAN, g \in Garbage :
          \E r \in {read_binary(fs, "mesh.bin", openOk, bin.points_per_primitive, g)} :
              /\ res' = [NoRes EXCEPT !.op = "read_binary", !.path = "mesh.bin",
                                      !.err = r.err, !.ub = r.ub,
                                      !.open = r.opened # {}]
              /\ bin' = [points_per_primitive |-> r.points_per_primitive,
                         points |-> r.points, scalars |-> r.scalars,
                         indices |-> r.indices]
              /\ handles' = AfterCall(r)
    /\ pc' = "done"
    /\ UNCHANGED <<fs, node, ele, node2, ele2, attribute_idx, raw>>

Next ==
    \/ ReadNode
    \/ WriteNode
    \/ RereadNode
    \/ ReadEle
    \/ WriteEle
    \/ RereadEle
    \/ Export
    \/ WriteRaw
    \/ Import

Spec == Init /\ [][Next]_vars

\* ------------------------------------------------------------------------
\* properties
\* ------------------------------------------------------------------------
\* a line that is blank, or whose first character that is not whitespace is '#'
BlankOrComment(l) ==
    LET rest == SelectSeq(l, LAMBDA it : it.k # "ws")
    IN  rest = <<>> \/ rest[1].k = "hash"

Significant(lines) == SelectSeq(lines, LAMBDA x : ~BlankOrComment(x))

\* the 1-based position in lines of its k-th significant line
PhysicalLine(lines, k) ==
    CHOOSE i \in 1..Len(lines) :
        /\ ~BlankOrComment(lines[i])
        /\ Cardinality({j \in 1..i : ~BlankOrComment(lines[j])}) = k

SameNode(a, b) ==
    /\ a.num_points = b.num_points
    /\ a.dimension = b.dimension
    /\ a.num_attributes = b.num_attributes
    /\ a.num_boundary_markers = b.num_boundary_markers
    /\ a.points = b.points
    /\ a.attributes = b.attributes
    /\ a.boundary_markers = b.boundary_markers

SameEle(a, b) ==
    /\ a.num_tetrahedra = b.num_tetrahedra
    /\ a.nodes_per_tetrahedron = b.nodes_per_tetrahedron
    /\ a.num_attributes = b.num_attributes
    /\ a.nodes = b.nodes
    /\ a.attributes = b.attributes

\* the last call read lines: its outcome is that of reading ref, the significant
\* lines alone, with the error line counted in lines
SameOutcome(lines, ref) ==
    /\ res.ub = ref.ub
    /\ res.err = ref.err
    /\ res.what = ref.what
    /\ res.header_read = ref.header_read
    /\ res.err # "none" => res.line = PhysicalLine(lines, ref.line_number)

\* C8: blank lines and comment lines, wherever they stand in a .node or .ele file,
\* change neither the header nor the record sequences the reader returns, and an
\* error of the reader names the line of the file (skipped lines counted) at which
\* the same error arises without them.
C8_SkippedLinesIgnored ==
    /\ (res.op = "read_node" /\ res.path = "in.node" /\ res.open) =>
          LET lines == fs["in.node"].data
              ref == ReadNodeLoop(Significant(lines), 1, NewReader(NewNode(0)))
          IN  /\ SameOutcome(lines, ref)
              /\ (res.err = "none" /\ ~res.ub) =>
                    IF res.header_read THEN SameNode(node, ref.val)
                    ELSE /\ node.points = <<>>
                         /\ node.attributes = <<>>
                         /\ node.boundary_markers = <<>>
    /\ (res.op = "read_ele" /\ res.path = "in.ele" /\ res.open) =>
          LET lines == fs["in.ele"].data
              ref == ReadEleLoop(Significant(lines), 1, NewReader(NewEle(0)))
          IN  /\ SameOutcome(lines, ref)
              /\ (res.err = "none" /\ ~res.ub) =>
                    IF res.header_read THEN SameEle(ele, ref.val)
                    ELSE ele.nodes = <<>> /\ ele.attributes = <<>>

\* a record of in.node was refused on a line that follows skipped lines, and a .ele
\* file with skipped lines was read to its end
C8_Witness ==
    \/ /\ res.op = "read_node" /\ res.path = "in.node"
       /\ res.err = "MalformedRecord"
       /\ res.line > Len(Significant(SubSeq(fs["in.node"].data, 1, res.line)))
    \/ /\ res.op = "read_ele" /\ res.path = "in.ele"
       /\ res.err = "none" /\ ~res.ub /\ ele.nodes # <<>>
       /\ Len(fs["in.ele"].data) > Len(Significant(fs["in.ele"].data))

\* C9: no stream a call opened is open once the call has returned or thrown.
C9_NoOpenHandles == handles = {}

\* a writer threw on a check it makes after opening its output file
C9_Witness ==
    /\ res.op \in {"write_node", "write_ele", "export"}
    /\ res.open
    /\ res.err \in {"SizeMismatch", "InvalidHeaderField", "UnsupportedDimension"}
    /\ handles = {}

\* v holds exactly count records of width values
ExactLen(v, count, width) ==
    IF width = 0 \/ count = 0 THEN v = <<>>
    ELSE /\ U32AtMost(count, Len(v))
         /\ U32AtMost(width, Len(v))
         /\ count * width = Len(v)

\* C1: a .node file that read_node accepts, written by write_node and read again,
\* gives the same four header fields and the same coordinates, attributes and
\* boundary markers.
C1_NodeRoundTrip ==
    (/\ FileExists(fs, "in.node")
     /\ res.op = "read_node" /\ res.path = "out.node"
     /\ res.err = "none" /\ ~res.ub)
    => SameNode(node2, node)

\* C2: after a binary export that succeeded, read_binary returns 4 points per
\* primitive, the parsed coordinates (num_points * 3 of them), attribute
\* attribute_idx of every point (num_points scalars) and the parsed zero-based node
\* indices (num_tetrahedra * 4 of them).
C2_BinaryRoundTrip ==
    (/\ FileExists(fs, "in.node")
     /\ res.op = "read_binary" /\ res.err = "none")
    => /\ bin.points_per_primitive = 4
       /\ bin.points = node.points
       /\ Len(bin.points) = node.num_points * 3
       /\ Len(bin.scalars) = node.num_points
       /\ \A i \in 1..Len(bin.scalars) :
             IF node.num_attributes > 0
             THEN LET j == (i - 1) * node.num_attributes + attribute_idx + 1
                  IN  j <= Len(node.attributes) /\ bin.scalars[i] = node.attributes[j]
             ELSE bin.scalars[i] = F32Bits(0)
       /\ bin.indices = ele.nodes
       /\ Len(bin.indices) = ele.num_tetrahedra * 4

\* the integers of the first significant line of lines
HeaderIntegers(lines) ==
    IF Significant(lines) = <<>> THEN <<>> ELSE ExtractInts(trim(Significant(lines)[1]))

\* C3: read_node refuses a header of four integers with InvalidHeaderField exactly
\* when it breaks one of  num_points > 0, dimension in {2, 3}, num_attributes >= 0,
\* num_boundary_markers in {0, 1}, the integers taken as signed.
C3_HeaderValidation ==
    (/\ res.op = "read_node" /\ res.path = "in.node" /\ res.open
     /\ Len(HeaderIntegers(fs["in.node"].data)) = 4)
    => LET hdr == HeaderIntegers(fs["in.node"].data)
           valid == /\ hdr[1] > 0
                    /\ hdr[2] \in {2, 3}
                    /\ hdr[3] >= 0
                    /\ hdr[4] \in {0, 1}
       IN  (res.err = "InvalidHeaderField") <=> ~valid

\* C4: write_node and write_ele throw SizeMismatch when an array is shorter than
\* count * width (points, attributes, boundary_markers; nodes, attributes), so a
\* writer that has passed its checks reads no element past the end of an array.
C4_WriterSizeChecks ==
    /\ (res.op = "write_node" /\ res.open /\ NodeHeaderCheck(node) = "ok") =>
          /\ ~NodeCovered(node) => res.err = "SizeMismatch"
          /\ ~res.ub
    /\ (res.op = "write_ele" /\ res.open /\ EleHeaderCheck(ele) = "ok") =>
          /\ ~EleCovered(ele) => res.err = "SizeMismatch"
          /\ ~res.ub

\* C5: an Ele with a valid header and arrays of the declared lengths, written by
\* write_ele and read by read_ele, comes back with the same header, attributes and
\* zero-based node indices.
C5_EleRoundTrip ==
    (/\ res.op = "read_ele" /\ res.path = "out.ele" /\ res.open
     /\ EleHeaderCheck(ele) = "ok"
     /\ ExactLen(ele.nodes, ele.num_tetrahedra, ele.nodes_per_tetrahedron)
     /\ ExactLen(ele.attributes, ele.num_tetrahedra, ele.num_attributes))
    => /\ res.err = "none"
       /\ ~res.ub
       /\ SameEle(ele2, ele)

\* the export got past both readers and was not stopped by the open of mesh.bin
ExportChecked ==
    /\ res.op = "export"
    /\ res.what = ""
    /\ res.err # "IoError"

\* C6: with dimension 3 and 4 nodes per tetrahedron the export throws
\* AttributeIndexOutOfRange exactly when attribute_idx is not 0 and is at least
\* num_attributes; otherwise it succeeds and the scalar block of mesh.bin holds, point
\* by point, attribute attribute_idx of the point, or 0.0 when there are no attributes.
C6_ScalarSelection ==
    (ExportChecked /\ node.dimension = 3 /\ ele.nodes_per_tetrahedron = 4)
    => LET np == node.num_points
           na == node.num_attributes
           data == fs["mesh.bin"].data
           refused == attribute_idx # 0 /\ attribute_idx >= na
       IN  /\ (res.err = "AttributeIndexOutOfRange") <=> refused
           /\ ~refused =>
                 /\ res.err = "none"
                 /\ Len(data) >= 3 + 4 * np
                 /\ \A i \in 0..(np - 1) :
                       IF na > 0
                       THEN /\ i * na + attribute_idx < Len(node.attributes)
                            /\ data[3 + 3 * np + i + 1]
                                  = node.attributes[i * na + attribute_idx + 1]
                       ELSE data[3 + 3 * np + i + 1] = F32Bits(0)

\* C7: an export that throws UnsupportedDimension, UnsupportedTopology or
\* AttributeIndexOutOfRange leaves mesh.bin as it was: not created, not truncated.
C7_ChecksBeforeOpen ==
    [][(/\ res'.op = "export"
        /\ pc = "export"
        /\ res'.err \in {"UnsupportedDimension", "UnsupportedTopology",
                         "AttributeIndexOutOfRange"})
       => fs'["mesh.bin"] = fs["mesh.bin"]]_vars

\* C10: an export whose files both readers accepted and that passed its checks
\* reads inside its arrays: num_points * 3 <= |points|, every
\* i * num_attributes + attribute_idx < |attributes| when there are attributes, and
\* num_tetrahedra * 4 <= |nodes|.
C10_ExportReadsInBounds ==
    (ExportChecked /\ res.err = "none")
    => /\ node.num_points * 3 <= Len(node.points)
       /\ node.num_attributes > 0 =>
             \A i \in 0..(node.num_points - 1) :
                 i * node.num_attributes + attribute_idx < Len(node.attributes)
       /\ ele.num_tetrahedra * 4 <= Len(ele.nodes)

====
